---- MODULE Spec2Model ----
(***************************************************************************)
(* Model of dashboard.py: the payload builder (prepare_image,              *)
(* accumulate_event), the response interpreter (parse_json_or_html) and    *)
(* the delivery worker (push_event) around one multiprocessing Queue.      *)
(*                                                                         *)
(* Text is modelled as sequences: a label is a sequence of one-character   *)
(* strings, a Base64 string is a sequence of ASCII codes, a byte buffer is *)
(* a sequence of numbers in 0..255.  Python's None is the record None.     *)
(***************************************************************************)
EXTENDS Integers, Sequences, FiniteSets, TLC

\* ------------------------------------------------------------------ bounds
\* Number of producer-side calls (accumulate_event or the call that puts the
\* sentinel) a behaviour contains.
MaxEvents == 3

\* Longest detection_types list and largest location_id of the builder runs.
MaxLabels == 3

MaxLocation == 2

\* ----------------------------------------------------------------- helpers
None == [none |-> TRUE]

Range(s) == {s[i] : i \in 1..Len(s)}

\* All orderings of a finite set, as sequences without repetition.
Orderings(S) ==
    {s \in [1..Cardinality(S) -> S] : \A i, j \in 1..Cardinality(S) : s[i] = s[j] => i = j}

\* ------------------------------------------------- detection type mapping
No_Gloves == <<"N", "o", "_", "G", "l", "o", "v", "e", "s">>
No_Sleeves == <<"N", "o", "_", "S", "l", "e", "e", "v", "e", "s">>
No_Helmet == <<"N", "o", "_", "H", "e", "l", "m", "e", "t">>

detection_types_mapping_dict ==
    [label \in {No_Gloves, No_Sleeves, No_Helmet} |->
        IF label = No_Gloves THEN 0 ELSE IF label = No_Sleeves THEN 1 ELSE 2]

UpperCase ==
    <<"A", "B", "C", "D", "E", "F", "G", "H", "I", "J", "K", "L", "M",
      "N", "O", "P", "Q", "R", "S", "T", "U", "V", "W", "X", "Y", "Z">>

LowerCase ==
    <<"a", "b", "c", "d", "e", "f", "g", "h", "i", "j", "k", "l", "m",
      "n", "o", "p", "q", "r", "s", "t", "u", "v", "w", "x", "y", "z">>

\* str.lower() on one character.
Lower(c) ==
    IF \E i \in 1..Len(UpperCase) : UpperCase[i] = c
    THEN LowerCase[CHOOSE i \in 1..Len(UpperCase) : UpperCase[i] = c]
    ELSE c

\* detection.replace("_", " ").lower()
Details(detection) ==
    [i \in 1..Len(detection) |-> Lower(IF detection[i] = "_" THEN " " ELSE detection[i])]

\* A lookup that ignores case: a label matches a key when both give the
\* same details text.
DetectionsList_caseless(order) ==
    LET keys == DOMAIN detection_types_mapping_dict
        known == SelectSeq(order, LAMBDA d : \E k \in keys : Details(k) = Details(d))
    IN  [i \in 1..Len(known) |->
            [type |-> detection_types_mapping_dict[
                          CHOOSE k \in keys : Details(k) = Details(known[i])],
             details |-> Details(known[i])]]

\* The loop over unique_detection_types, taken in the iteration order `order`.
DetectionsList(order) ==
    LET known == SelectSeq(order, LAMBDA d : d \in DOMAIN detection_types_mapping_dict)
    IN  [i \in 1..Len(known) |->
            [type |-> detection_types_mapping_dict[known[i]], details |-> Details(known[i])]]

\* The smallest code instead of the largest.
MaxType_min(detections_list) ==
    IF Len(detections_list) = 0
    THEN 1
    ELSE CHOOSE m \in {detections_list[i].type : i \in 1..Len(detections_list)} :
            \A i \in 1..Len(detections_list) : detections_list[i].type >= m

\* max([det["type"] for det in detections_list], default=1)
MaxType(detections_list) ==
    IF Len(detections_list) = 0
    THEN 1
    ELSE CHOOSE m \in {detections_list[i].type : i \in 1..Len(detections_list)} :
            \A i \in 1..Len(detections_list) : detections_list[i].type <= m

\* ------------------------------------------------------------------ Base64
\* ASCII code of the Base64 digit with value s (0..63).
B64Char(s) ==
    IF s < 26 THEN 65 + s
    ELSE IF s < 52 THEN 97 + (s - 26)
    ELSE IF s < 62 THEN 48 + (s - 52)
    ELSE IF s = 62 THEN 43 ELSE 47

\* ASCII code of the padding character "=".
PadChar == 61

\* Value of an ASCII code as a Base64 digit, -1 when it is not one.
B64Index(c) ==
    IF c >= 65 /\ c <= 90 THEN c - 65
    ELSE IF c >= 97 /\ c <= 122 THEN c - 97 + 26
    ELSE IF c >= 48 /\ c <= 57 THEN c - 48 + 52
    ELSE IF c = 43 THEN 62
    ELSE IF c = 47 THEN 63 ELSE -1

\* The 4 characters that encode up to 3 bytes (n = number of real bytes).
B64Group(b1, b2, b3, n) ==
    <<B64Char(b1 \div 4),
      B64Char((b1 % 4) * 16 + (b2 \div 16)),
      IF n >= 2 THEN B64Char((b2 % 16) * 4 + (b3 \div 64)) ELSE PadChar,
      IF n >= 3 THEN B64Char(b3 % 64) ELSE PadChar>>

RECURSIVE b64encode(_)
\* base64.b64encode(buffer).decode()
b64encode(bytes) ==
    IF Len(bytes) = 0 THEN <<>>
    ELSE IF Len(bytes) = 1 THEN B64Group(bytes[1], 0, 0, 1)
    ELSE IF Len(bytes) = 2 THEN B64Group(bytes[1], bytes[2], 0, 2)
    ELSE B64Group(bytes[1], bytes[2], bytes[3], 3) \o b64encode(SubSeq(bytes, 4, Len(bytes)))

\* Number of trailing '=' of a string.
PadCount(text) ==
    IF Len(text) >= 2 /\ text[Len(text)] = PadChar /\ text[Len(text) - 1] = PadChar THEN 2
    ELSE IF Len(text) >= 1 /\ text[Len(text)] = PadChar THEN 1 ELSE 0

\* What validate=True accepts: digits of the alphabet, then at most two '=',
\* in whole groups of 4.
B64Valid(text) ==
    /\ Len(text) % 4 = 0
    /\ \A i \in 1..(Len(text) - PadCount(text)) : B64Index(text[i]) >= 0

RECURSIVE B64DecodeGroups(_, _)
B64DecodeGroups(text, pad) ==
    IF Len(text) = 0 THEN <<>>
    ELSE LET d(i) == IF B64Index(text[i]) >= 0 THEN B64Index(text[i]) ELSE 0
             three == <<d(1) * 4 + (d(2) \div 16),
                        (d(2) % 16) * 16 + (d(3) \div 4),
                        (d(3) % 4) * 64 + d(4)>>
         IN  IF Len(text) = 4
             THEN SubSeq(three, 1, 3 - pad)
             ELSE three \o B64DecodeGroups(SubSeq(text, 5, Len(text)), pad)

\* base64.b64decode(text, validate=True): the bytes, or a raised error.
b64decode(text) ==
    IF B64Valid(text)
    THEN [raised |-> FALSE, bytes |-> B64DecodeGroups(text, PadCount(text))]
    ELSE [raised |-> TRUE, bytes |-> <<>>]

\* ------------------------------------------------------------ prepare_image
\* A frame is its element type and its pixel bytes.
Frames ==
    {[dtype |-> "uint8", pixels |-> <<>>],
     [dtype |-> "complex128", pixels |-> <<7>>],
     [dtype |-> "uint8", pixels |-> <<0>>],
     [dtype |-> "uint8", pixels |-> <<255, 16, 3>>]}

PngSignature == <<137, 80, 78, 71>>

\* cv2.imencode('.png', frame, ...): raises on an empty frame, reports
\* success = False for an element type PNG cannot hold, else the PNG bytes.
imencode(frame) ==
    IF Len(frame.pixels) = 0
    THEN [raised |-> TRUE, success |-> FALSE, buffer |-> <<>>]
    ELSE IF frame.dtype # "uint8"
    THEN [raised |-> FALSE, success |-> FALSE, buffer |-> <<>>]
    ELSE [raised |-> FALSE, success |-> TRUE, buffer |-> PngSignature \o frame.pixels]

\* prepare_image without the `raise` of line 66: the error is logged and
\* the function returns nothing.
prepare_image_swallow(frame, file, open_ok) ==
    LET enc == imencode(frame)
        dashboard_img == b64encode(enc.buffer)
    IN  IF enc.raised \/ ~enc.success \/ b64decode(dashboard_img).raised \/ ~open_ok
        THEN [raised |-> FALSE, value |-> <<>>, file |-> file]
        ELSE [raised |-> FALSE, value |-> dashboard_img, file |-> dashboard_img]

\* prepare_image without lines 50-53: the PNG buffer itself is returned.
prepare_image_raw(frame, file, open_ok) ==
    LET enc == imencode(frame)
    IN  IF enc.raised \/ ~enc.success \/ ~open_ok
        THEN [raised |-> TRUE, value |-> <<>>, file |-> file]
        ELSE [raised |-> FALSE, value |-> enc.buffer, file |-> enc.buffer]

\* prepare_image(frame) with the defaults accumulate_event uses
\* (live_stream=False, so no resize).  `file` is the content of
\* encoded_image.txt before the call and open_ok whether open(..., "w")
\* succeeds.  Every exception is logged and re-raised (lines 64-66).
prepare_image(frame, file, open_ok) ==
    LET enc == imencode(frame)
        dashboard_img == b64encode(enc.buffer)
        Raise == [raised |-> TRUE, value |-> <<>>, file |-> file]
    IN  IF enc.raised THEN Raise
        ELSE IF ~enc.success THEN Raise
        ELSE IF b64decode(dashboard_img).raised THEN Raise
        ELSE IF ~open_ok THEN Raise
        ELSE [raised |-> FALSE, value |-> dashboard_img, file |-> dashboard_img]

\* --------------------------------------------------------- accumulate_event
\* Inputs of the producer calls.
LocationIds == {0, 2}

Unknown_Thing == <<"U", "n", "k", "n", "o", "w", "n">>

DetectionInputs == {<<No_Helmet, Unknown_Thing, No_Helmet>>}

\* datetime.now().strftime("%Y-%m-%d %H:%M:%S") as read from the clock.
Dates == {"2026-11-06 13:34:00"}

\* Iterating the list itself, without set().
IterationOrders_nodedup(detection_types) == {detection_types}

\* unique_detection_types = set(detection_types) and the orders in which the
\* for loop of line 79 can go through it.
IterationOrders(detection_types) == Orderings(Range(detection_types))

\* A builder that forgets lines 72-73.
NormalizeLocation_identity(location_id) == location_id

\* if location_id == 0: location_id = 1
NormalizeLocation(location_id) == IF location_id = 0 THEN 1 ELSE location_id

\* A builder that hands nothing to put.
Payload_none(location_id, date, detections_list, image) == None

\* The dict literal of lines 89-95, the image already encoded.
Payload(location_id, date, detections_list, image) ==
    [location_id |-> location_id,
     date |-> date,
     type |-> MaxType(detections_list),
     detections |-> detections_list,
     image |-> image]

\* results_queue.put(item)
put(q, item) == Append(q, item)

\* ------------------------------------------------------- parse_json_or_html
\* A response body: JSON text, or markup with or without a title element, or
\* markup the HTML parser rejects with an exception of its own.
Bodies ==
    {[format |-> "json", value |-> [status |-> "ok"], title |-> None, parses |-> TRUE],
     [format |-> "html", value |-> None, title |-> [string |-> "Error"], parses |-> TRUE],
     [format |-> "html", value |-> None, title |-> None, parses |-> TRUE],
     [format |-> "html", value |-> None, title |-> None, parses |-> FALSE]}

\* response.json() succeeds on JSON text and raises json.JSONDecodeError
\* otherwise; the handler of line 114 then builds the HTML result, and an
\* exception raised inside that handler leaves parse_json_or_html.
parse_json_or_html(response) ==
    IF response.body.format = "json"
    THEN [raised |-> FALSE, warned |-> FALSE, value |-> response.body.value]
    ELSE IF ~response.body.parses
    THEN [raised |-> TRUE, warned |-> TRUE, value |-> None]
    ELSE [raised |-> FALSE, warned |-> TRUE,
          value |-> [html |-> [title |-> IF response.body.title = None
                                         THEN [string |-> "No Title"]
                                         ELSE response.body.title,
                               content |-> response.body]]]

\* --------------------------------------------------------------- push_event
Statuses == {200, 304, 404, 500}

\* What session.post can come back with: a response, or a
\* requests.exceptions.RequestException raised by the transport.
Outcomes ==
    {[error |-> TRUE, status |-> 0, body |-> None]}
        \cup {[error |-> FALSE, status |-> s, body |-> b] : s \in Statuses, b \in Bodies}

\* The outcomes that differ in what push_event does with them: the body of a
\* 4xx or 5xx response is never read.
OutcomeInputs ==
    {o \in Outcomes :
        (~o.error /\ o.status >= 400) =>
            (o.body.format = "html" /\ o.body.parses /\ o.body.title # None)}

\* response.raise_for_status() raises HTTPError for 4xx and 5xx.
raise_for_status(response) == response.status >= 400 /\ response.status < 600

\* A get() that hands out the newest item instead of the oldest.
get_last(q) == [item |-> q[Len(q)], rest |-> SubSeq(q, 1, Len(q) - 1)]

\* event_queue.get() of a non-empty queue: the item and the queue left.
get(q) == [item |-> Head(q), rest |-> Tail(q)]

\* A loop that never recognises the sentinel.
IsSentinel_never(item) == FALSE

\* `if event is None` (line 127).
IsSentinel(item) == item = None

\* A handler that leaves the loop instead of continuing.
except_RequestException_break(q, item) == [pc |-> "stopped", log |-> <<"error">>, queue |-> q]

\* A handler that puts the failed event back on the queue.
except_RequestException_requeue(q, item) ==
    [pc |-> "get", log |-> <<"error">>, queue |-> Append(q, item)]

\* The handler of lines 144-146: log the error and continue; the queue is
\* not touched.
except_RequestException(q, item) == [pc |-> "get", log |-> <<"error">>, queue |-> q]

VARIABLES
    queue,              \* the Queue shared by producers and push_event
    history,            \* every item ever put, in order (ghost)
    taken,              \* number of get() calls that returned (ghost)
    calls,              \* number of producer-side calls made (ghost)
    last_call,          \* the last producer-side call and how it ended (ghost)
    encoded_image_txt,  \* content of the debug file
    pc,                 \* push_event: "get", "post", "stopped", "crashed"
    event,              \* push_event's local `event`
    posts,              \* the POST requests issued so far
    returned,           \* number of session.post calls that came back (ghost)
    response,           \* the outcome of the last session.post
    parsed_response,    \* push_event's local `parsed_response`
    worker_log,         \* the log lines push_event wrote last
    call_args,          \* the arguments drawn for a builder run (ghost)
    producers           \* the producer processes of the concurrent runs

vars ==
    <<queue, history, taken, calls, last_call, encoded_image_txt,
      pc, event, posts, returned, response, parsed_response, worker_log, call_args,
      producers>>

producer_vars == <<calls, last_call, encoded_image_txt, history, call_args, producers>>

worker_vars == <<taken, pc, event, posts, returned, response, parsed_response, worker_log>>

NoCall == [op |-> "none", encoded |-> FALSE, raised |-> FALSE]

\* The processes that call accumulate_event concurrently.
Producers == {"p1", "p2"}

\* A producer between calls, with nothing called yet: `payload` is the local
\* of line 89 once built, `sent` the positions in history of the payloads it
\* has put (ghost), wrote_file whether it has written encoded_image.txt.
IdleProducer ==
    [pc |-> "idle", payload |-> None, returned |-> 0, raised |-> 0, sent |-> <<>>,
     wrote_file |-> FALSE]

InitState ==
    /\ queue = <<>>
    /\ history = <<>>
    /\ taken = 0
    /\ calls = 0
    /\ last_call = NoCall
    /\ encoded_image_txt = None
    /\ pc = "get"
    /\ event = None
    /\ posts = <<>>
    /\ returned = 0
    /\ response = None
    /\ parsed_response = None
    /\ worker_log = <<>>
    /\ producers = [p \in Producers |-> IdleProducer]

Init == InitState /\ call_args = None

\* Whether the frame can be encoded and validated (lines 45-53), whatever
\* happens to the debug file afterwards.
Encodable(frame) ==
    LET enc == imencode(frame)
    IN  ~enc.raised /\ enc.success /\ ~b64decode(b64encode(enc.buffer)).raised

\* accumulate_event(location_id, frame, detection_types, results_queue); the
\* set is iterated in `order`, the clock reads `date`.
accumulate_event(location_id, frame, detection_types, order, date, open_ok) ==
    LET loc == NormalizeLocation(location_id)
        detections_list == DetectionsList(order)
        image == prepare_image(frame, encoded_image_txt, open_ok)
        payload == Payload(loc, date, detections_list, image.value)
    IN  /\ calls < MaxEvents
        /\ calls' = calls + 1
        /\ encoded_image_txt' = image.file
        /\ last_call' =
               [op |-> "accumulate_event", encoded |-> Encodable(frame), raised |-> image.raised]
        /\ IF image.raised
           THEN UNCHANGED <<queue, history>>
           ELSE /\ queue' = put(queue, payload)
                /\ history' = Append(history, payload)
        /\ UNCHANGED <<call_args, producers>>
        /\ UNCHANGED worker_vars

Accumulate ==
    \E location_id \in LocationIds, frame \in Frames, detection_types \in DetectionInputs,
       date \in Dates, open_ok \in BOOLEAN :
        \E order \in IterationOrders(detection_types) :
            accumulate_event(location_id, frame, detection_types, order, date, open_ok)

\* The separate call that ends the worker: results_queue.put(None).
PutSentinel ==
    /\ calls < MaxEvents
    /\ calls' = calls + 1
    /\ last_call' = [op |-> "put_sentinel", encoded |-> FALSE, raised |-> FALSE]
    /\ queue' = put(queue, None)
    /\ history' = Append(history, None)
    /\ UNCHANGED <<encoded_image_txt, call_args, producers>>
    /\ UNCHANGED worker_vars

\* A loop whose get() does not wait for session.post to come back.
AtGet_during_post == pc \in {"get", "post"}

\* push_event is at event_queue.get() (line 126): the loop is sequential, so
\* only at its start and after the previous iteration has ended.
AtGet == pc = "get"

\* Lines 126-136: get() returns, the sentinel ends the loop, anything else is
\* sent with session.post, which is then in flight.
Get ==
    /\ AtGet
    /\ queue # <<>>
    /\ LET got == get(queue)
       IN  /\ queue' = got.rest
           /\ event' = got.item
           /\ taken' = taken + 1
           /\ IF IsSentinel(got.item)
              THEN /\ pc' = "stopped"
                   /\ worker_log' = <<"sentinel", "finished">>
                   /\ posts' = posts
              ELSE /\ pc' = "post"
                   /\ worker_log' = worker_log
                   /\ posts' = Append(posts, [idx |-> taken + 1, json |-> got.item])
    /\ UNCHANGED <<returned, response, parsed_response>>
    /\ UNCHANGED producer_vars

\* Lines 136-146: session.post comes back with `outcome`.
PostReturn(outcome) ==
    /\ pc = "post"
    /\ response' = outcome
    /\ returned' = returned + 1
    /\ IF outcome.error \/ raise_for_status(outcome)
       THEN LET handled == except_RequestException(queue, event)
            IN  /\ worker_log' = handled.log
                /\ pc' = handled.pc
                /\ queue' = handled.queue
                /\ UNCHANGED parsed_response
       ELSE LET parsed == parse_json_or_html(outcome)
            IN  /\ worker_log' = <<"success">> \o (IF parsed.warned THEN <<"not_json">> ELSE <<>>)
                /\ queue' = queue
                /\ IF parsed.raised
                   THEN /\ pc' = "crashed"
                        /\ UNCHANGED parsed_response
                   ELSE /\ pc' = "get"
                        /\ parsed_response' = parsed.value
    /\ UNCHANGED <<taken, event, posts>>
    /\ UNCHANGED producer_vars

Post == \E outcome \in OutcomeInputs : PostReturn(outcome)

Next == Accumulate \/ PutSentinel \/ Get \/ Post

Spec == Init /\ [][Next]_vars

\* The scheduler runs the worker process, and each session.post comes back.
FairSpec == Spec /\ WF_vars(Get) /\ WF_vars(Post)

\* ------------------------------------------------------------ builder runs
\* One accumulate_event call on arguments drawn from larger sets than Spec
\* can afford: every list of up to MaxLabels labels, exact keys and others.
no_helmet == <<"n", "o", "_", "h", "e", "l", "m", "e", "t">>

BuilderLabels == {No_Gloves, No_Sleeves, No_Helmet, Unknown_Thing, no_helmet}

BuilderFrames == {frame \in Frames : frame.dtype = "uint8" /\ Len(frame.pixels) <= 1}

BuilderArgs ==
    [location_id : 0..MaxLocation,
     frame : BuilderFrames,
     detection_types : UNION {[1..n -> BuilderLabels] : n \in 0..MaxLabels},
     open_ok : BOOLEAN]

BuilderInit == InitState /\ call_args \in BuilderArgs

BuilderCall ==
    /\ calls = 0
    /\ \E order \in IterationOrders(call_args.detection_types), date \in Dates :
            accumulate_event(call_args.location_id, call_args.frame,
                             call_args.detection_types, order, date, call_args.open_ok)

BuilderNext == BuilderCall

BuilderSpec == BuilderInit /\ [][BuilderNext]_vars

\* --------------------------------------------------------- concurrent runs
\* accumulate_event called by several producer processes at once.  A call is
\* two steps, between which the other processes run: lines 72-95 build the
\* payload (prepare_image writes the debug file), line 99 puts it.
ConcFrames == BuilderFrames

ProducerBuild(p, location_id, frame, order, date, open_ok) ==
    LET image == prepare_image(frame, encoded_image_txt, open_ok)
        payload == Payload(NormalizeLocation(location_id), date, DetectionsList(order),
                           image.value)
    IN  /\ producers[p].pc = "idle"
        /\ calls < MaxEvents
        /\ calls' = calls + 1
        /\ encoded_image_txt' = image.file
        /\ last_call' =
               [op |-> "accumulate_event", encoded |-> Encodable(frame), raised |-> image.raised]
        /\ producers' =
               [producers EXCEPT ![p] =
                   IF image.raised
                   THEN [@ EXCEPT !.raised = @ + 1]
                   ELSE [@ EXCEPT !.pc = "built", !.payload = payload, !.wrote_file = TRUE]]
        /\ UNCHANGED <<queue, history, call_args>>
        /\ UNCHANGED worker_vars

ProducerPut(p) ==
    /\ producers[p].pc = "built"
    /\ queue' = put(queue, producers[p].payload)
    /\ history' = Append(history, producers[p].payload)
    /\ producers' =
           [producers EXCEPT ![p] =
               [@ EXCEPT !.pc = "idle", !.payload = None, !.returned = @ + 1,
                         !.sent = Append(@, Len(history) + 1)]]
    /\ UNCHANGED <<calls, last_call, encoded_image_txt, call_args>>
    /\ UNCHANGED worker_vars

Build ==
    \E p \in Producers, location_id \in LocationIds, frame \in ConcFrames,
       detection_types \in DetectionInputs, date \in Dates, open_ok \in BOOLEAN :
        \E order \in IterationOrders(detection_types) :
            ProducerBuild(p, location_id, frame, order, date, open_ok)

Put == \E p \in Producers : ProducerPut(p)

ConcNext == Build \/ Put \/ PutSentinel \/ Get \/ Post

ConcSpec == Init /\ [][ConcNext]_vars

\* ------------------------------------------------------------------ claims
\* The payloads put before the first sentinel, as positions of history.
AheadOfSentinel == {i \in 1..Len(history) : \A j \in 1..i : history[j] # None}

SentinelPut == \E i \in 1..Len(history) : history[i] = None

\* The last session.post came back with a transport error or a 4xx/5xx.
LastPostFailed == response # None /\ (response.error \/ response.status >= 400)

\* C1: once push_event has dequeued the stop sentinel it is stopped for good
\* and issues no further POST; the step that dequeues the sentinel posts
\* nothing, and afterwards nothing is dequeued: what is put later stays on
\* the queue.
C1_StopSemantics ==
    [][/\ (taken' # taken /\ event' = None) => (pc' = "stopped" /\ posts' = posts)
       /\ pc = "stopped" =>
            /\ pc' = "stopped"
            /\ posts' = posts
            /\ taken' = taken
            /\ Len(queue') >= Len(queue)
            /\ SubSeq(queue', 1, Len(queue)) = queue]_vars

C1_Witness ==
    /\ pc = "stopped"
    /\ Len(posts) >= 1
    /\ \E i \in 1..Len(queue) : queue[i] # None

\* C2: the POSTs are issued in the order the payloads were put (the k-th
\* POST carries an item put before the item of every later POST), and a POST
\* is issued only after every earlier one has come back: at most one is in
\* flight, and exactly while push_event is inside session.post.
C2_FifoDelivery ==
    /\ \A i \in 1..Len(posts) :
        /\ posts[i].idx \in 1..Len(history)
        /\ posts[i].json = history[posts[i].idx]
        /\ \A j \in 1..Len(posts) : i < j => posts[i].idx < posts[j].idx
    /\ Len(posts) - returned \in {0, 1}
    /\ (pc = "post") <=> (Len(posts) - returned = 1)

C2_Witness ==
    /\ Len(posts) >= 2
    /\ posts[1].json # posts[2].json
    /\ returned >= 2

\* C3: when a submission fails (transport error or 4xx/5xx status),
\* push_event logs the error and is back at get(), neither stopped nor
\* crashed; the queue and everything a producer can see are left alone.
C3_FailureIsolation ==
    [][(pc = "post" /\ pc' # "post" /\ (response'.error \/ response'.status >= 400)) =>
            /\ pc' = "get"
            /\ worker_log' = <<"error">>
            /\ queue' = queue
            /\ UNCHANGED producer_vars]_vars

\* A submission failed, and the next payload has been dequeued and sent.
C3_Witness ==
    /\ pc = "post"
    /\ Len(posts) >= 2
    /\ LastPostFailed

\* C4: a response is logged as pushed successfully if and only if its
\* status is 2xx; every other status and every transport error is logged as
\* an error.
C4_SuccessIsExactly2xx ==
    (response # None /\ pc # "stopped") =>
        LET is2xx == ~response.error /\ response.status >= 200 /\ response.status <= 299
        IN  /\ is2xx <=> ("success" \in Range(worker_log))
            /\ ~is2xx <=> (worker_log = <<"error">>)

\* C5: push_event submits each dequeued item at most once and never more
\* POSTs than items dequeued, and it puts nothing back: the queue is always
\* exactly what the producers put and push_event has not yet taken.
C5_NoRetryNoRequeue ==
    /\ Len(posts) <= taken
    /\ \A i, j \in 1..Len(posts) : posts[i].idx = posts[j].idx => i = j
    /\ taken <= Len(history)
    /\ queue = SubSeq(history, taken + 1, Len(history))

\* The only payload was submitted, failed, and is gone.
C5_Witness ==
    /\ pc = "get"
    /\ LastPostFailed
    /\ Len(posts) = 1
    /\ queue = <<>>
    /\ history # <<>>

\* C6: once the sentinel has been put (the worker being scheduled and every
\* session.post coming back), push_event eventually is stopped, and by then
\* every payload put ahead of the sentinel has been submitted exactly once.
C6_TerminationWithDrain ==
    SentinelPut ~>
        (/\ pc = "stopped"
         /\ \A i \in AheadOfSentinel :
                Cardinality({k \in 1..Len(posts) : posts[k].idx = i}) = 1)

\* C7: push_event has left the running state only if the item it dequeued
\* last is the stop sentinel.
C7_StopsOnlyOnSentinel == (pc \notin {"get", "post"}) => event = None

\* C8: an accumulate_event call whose frame cannot be encoded and validated
\* ends by raising to the caller, with the queue exactly as it was.
C8_EncodingFailureEnqueuesNothing ==
    [][(calls' # calls /\ last_call'.op = "accumulate_event" /\ ~last_call'.encoded) =>
            /\ last_call'.raised
            /\ queue' = queue
            /\ history' = history]_vars

\* An encoding failure was raised while a payload was waiting on the queue.
C8_Witness ==
    /\ last_call.op = "accumulate_event"
    /\ ~last_call.encoded
    /\ last_call.raised
    /\ \E i \in 1..Len(queue) : queue[i] # None

PayloadFields == {"location_id", "date", "type", "detections", "image"}

\* C9: every item on the queue is the sentinel or a record with exactly the
\* five payload fields whose image is a non-empty valid Base64 string that
\* decodes to PNG bytes and encodes back to itself; it is no frame and no
\* raw buffer.
C9_ChannelContent ==
    \A i \in 1..Len(queue) :
        \/ queue[i] = None
        \/ /\ DOMAIN queue[i] = PayloadFields
           /\ Len(queue[i].image) > 0
           /\ ~b64decode(queue[i].image).raised
           /\ b64encode(b64decode(queue[i].image).bytes) = queue[i].image
           /\ \E frame \in Frames :
                /\ imencode(frame).success
                /\ b64decode(queue[i].image).bytes = imencode(frame).buffer

C9_Witness ==
    /\ Len(queue) >= 2
    /\ \E i \in 1..Len(queue) : queue[i] = None
    /\ \E i \in 1..Len(queue) : queue[i] # None /\ Len(queue[i].image) % 4 = 0

\* C10: an accumulate_event call whose frame encodes and validates returns
\* normally (and so enqueues its payload), whatever happens to the write of
\* the debug file.
C10_DebugWriteIsolated ==
    (last_call.op = "accumulate_event" /\ last_call.encoded) => ~last_call.raised

\* C11: a 2xx response, whatever its body, is parsed into a structured
\* result: handling it neither ends push_event nor is logged as an error.
C11_ParseNeverFailsDelivery ==
    (response # None /\ ~response.error /\ response.status >= 200 /\ response.status <= 299) =>
        (pc # "crashed" /\ worker_log # <<"error">>)

\* The code the mapping gives a label, -1 for a label that is no exact key.
ClaimCode(label) ==
    IF label = No_Gloves THEN 0
    ELSE IF label = No_Sleeves THEN 1
    ELSE IF label = No_Helmet THEN 2 ELSE -1

\* The distinct recognised labels of the drawn detection_types.
RecognisedLabels == {l \in Range(call_args.detection_types) : ClaimCode(l) >= 0}

\* The builder run has returned normally: its payload is the queue.
Built == calls = 1 /\ ~last_call.raised /\ Len(queue) = 1

\* C12: the type of the built payload is the largest code among the
\* recognised distinct labels, and 1 when there is none.
C12_SeveritySelection ==
    (calls = 1 /\ ~last_call.raised) =>
        /\ Built
        /\ IF RecognisedLabels = {}
           THEN queue[1].type = 1
           ELSE /\ \E l \in RecognisedLabels : queue[1].type = ClaimCode(l)
                /\ \A l \in RecognisedLabels : queue[1].type >= ClaimCode(l)

\* Labels with codes 0 and 2 gave type 2.
C12_Witness ==
    /\ Built
    /\ {ClaimCode(l) : l \in RecognisedLabels} = {0, 2}
    /\ queue[1].type = 2

\* C13: detections has exactly one entry for every distinct recognised
\* label of the input and no other entry.
C13_Dedup ==
    (calls = 1 /\ ~last_call.raised) =>
        /\ Built
        /\ Len(queue[1].detections) = Cardinality(RecognisedLabels)
        /\ \A l \in RecognisedLabels :
            Cardinality({i \in 1..Len(queue[1].detections) :
                            queue[1].detections[i].type = ClaimCode(l)}) = 1

\* Three labels, one of them twice, gave two entries.
C13_Witness ==
    /\ Built
    /\ Len(call_args.detection_types) = 3
    /\ Cardinality(RecognisedLabels) = 2
    /\ Cardinality(Range(call_args.detection_types)) = 2
    /\ Len(queue[1].detections) = 2

\* C14: whatever labels the input holds, a call whose frame encodes (and
\* whose debug file opens) returns with its payload enqueued, and the
\* entries of detections are exactly those of the labels that are exact,
\* case-sensitive keys of the mapping.
C14_UnknownTypeTolerance ==
    calls = 1 =>
        /\ (Encodable(call_args.frame) /\ call_args.open_ok) => Built
        /\ Built =>
            Range(queue[1].detections) =
                {[type |-> ClaimCode(l), details |-> Details(l)] : l \in RecognisedLabels}

\* A key in the wrong case and an unknown label were skipped, a key kept.
C14_Witness ==
    /\ Built
    /\ Range(call_args.detection_types) = {no_helmet, Unknown_Thing, No_Gloves}
    /\ Len(queue[1].detections) = 1

\* C15: the enqueued payload has location_id 1 for the input 0 and the
\* input value otherwise; no payload on the queue has location_id 0.
C15_LocationNormalization ==
    /\ (calls = 1 /\ ~last_call.raised) =>
        /\ Built
        /\ queue[1].location_id =
               IF call_args.location_id = 0 THEN 1 ELSE call_args.location_id
    /\ \A i \in 1..Len(queue) : queue[i] # None => queue[i].location_id # 0

C15_Witness ==
    /\ Built
    /\ call_args.location_id = 0
    /\ queue[1].location_id = 1

\* C16: while session.post has not come back, push_event dequeues nothing,
\* issues no other POST and cannot stop, whatever is put meanwhile; it
\* leaves that state only by the POST coming back, so a POST that never
\* comes back keeps it there for ever.
C16_NoMidFlightCancellation ==
    [][pc = "post" =>
            /\ taken' = taken
            /\ posts' = posts
            /\ event' = event
            /\ pc' # "stopped"
            /\ pc' # "post" => returned' = returned + 1]_vars

\* The sentinel was put while a POST is in flight and waits at the head of
\* the queue.
C16_Witness ==
    /\ pc = "post"
    /\ queue # <<>>
    /\ Head(queue) = None
    /\ last_call.op = "put_sentinel"

\* C18: an accumulate_event call puts nothing or one record with the five
\* payload fields, never the sentinel; every sentinel on the queue comes from
\* the separate put(None) call, and push_event is stopped only after one.
C18_ProducerNeverStops ==
    [][/\ (calls' # calls /\ last_call'.op = "accumulate_event") =>
            \/ history' = history /\ queue' = queue
            \/ /\ Len(history') = Len(history) + 1
               /\ history'[Len(history')] # None
               /\ DOMAIN history'[Len(history')] = PayloadFields
               /\ queue' = Append(queue, history'[Len(history')])
       /\ (Len(history') > Len(history) /\ history'[Len(history')] = None) =>
            last_call'.op = "put_sentinel"
       /\ pc' = "stopped" => (taken' >= 1 /\ history'[taken'] = None)]_vars

\* accumulate_event calls only: the worker has delivered and still runs.
C18_Witness ==
    /\ calls = MaxEvents
    /\ Len(history) = MaxEvents
    /\ ~SentinelPut
    /\ taken = Len(history)
    /\ pc = "get"

\* C17: the queue is the only state that more than one process writes: no
\* two producers write the same other state (the worker writes none of
\* theirs).
C17_QueueOnlySharedState ==
    Cardinality({p \in Producers : producers[p].wrote_file}) <= 1

\* The positions of history that hold payloads.
PayloadPositions == {i \in 1..Len(history) : history[i] # None}

\* C19: with producers running concurrently, every call that has returned
\* put exactly one payload and no other call put any (the payloads ever put
\* are, one for one, those of the returned calls, and the queue holds those
\* not yet taken), and the POSTs of one producer's payloads are issued in the
\* order of that producer's calls.
C19_ConcurrentProducers ==
    /\ \A p \in Producers :
        /\ Len(producers[p].sent) = producers[p].returned
        /\ \A a, b \in 1..Len(producers[p].sent) :
            a # b => producers[p].sent[a] # producers[p].sent[b]
        /\ \A q \in Producers :
            p # q => Range(producers[p].sent) \cap Range(producers[q].sent) = {}
    /\ PayloadPositions = UNION {Range(producers[p].sent) : p \in Producers}
    /\ queue = SubSeq(history, taken + 1, Len(history))
    /\ \A i \in 1..Len(posts) : posts[i].json = history[posts[i].idx]
    /\ \A p \in Producers :
        \A a, b \in 1..Len(producers[p].sent) :
            \A i, j \in 1..Len(posts) :
                (a < b /\ posts[i].idx = producers[p].sent[a]
                       /\ posts[j].idx = producers[p].sent[b]) => i < j

\* Both producers have had payloads delivered, one of them two, and a call
\* has raised.
C19_Witness ==
    /\ \E p \in Producers :
        /\ producers[p].returned >= 2
        /\ \E i, j \in 1..Len(posts) :
            i < j /\ posts[i].idx = producers[p].sent[1] /\ posts[j].idx = producers[p].sent[2]
    /\ \E p \in Producers : producers[p].raised >= 1

====
